---- MODULE Spec2Model ----
(***************************************************************************)
(* Model of bittensor/_synapse/text_seq2seq_impl.py: the TextSeq2Seq       *)
(* synapse (shape checks, encode/decode transforms, nil fallbacks and the  *)
(* wire (de)serialisation of the instance).                                *)
(*                                                                         *)
(* A tensor is a record of its shape (a sequence of dimension sizes), its  *)
(* dtype and its non-zero entries (a set of <<index, value>> pairs, the    *)
(* index being a 0-based tuple); an all-zero tensor has no such entry.     *)
(* A Python call either returns a value (None, a tensor, a proto or an     *)
(* instance) or raises: Raise(e) stands for the exception e leaving it.    *)
(***************************************************************************)
EXTENDS Integers, Sequences, FiniteSets, TLC

VARIABLES synapse, vocab_size, req, other, op, arg, ret, call

vars == <<synapse, vocab_size, req, other, op, arg, ret, call>>

\* ------------------------------------------------------------------ bounds
MaxDim == 1
MaxRank == 3
MaxGen == 1
NumCalls == 2

\* --------------------------------------------------------- program constants
DefaultTopk == 512
DefaultNumToGenerate == 512
MSGPACK == 0
CMPPACK == 1

SerializerTypes == {MSGPACK, CMPPACK}
VocabSizes == {3, 50000}
ReturnCodes == {0, 1}
Messages == {"", "Success"}

\* ------------------------------------------------------------ Python values
None == [kind |-> "None"]
Raise(e) == [kind |-> "raise", exc |-> e]
ShapeError == Raise("ValueError")

\* ------------------------------------------------------------------ tensors
Tensor(shape, dtype, data) ==
    [kind |-> "Tensor", shape |-> shape, dtype |-> dtype, data |-> data]

Rank(t) == Len(t.shape)

SeqMax(s) == IF s = <<>> THEN 0 ELSE CHOOSE m \in {s[i] : i \in 1..Len(s)} : \A i \in 1..Len(s) : s[i] <= m

Indices(shape) ==
    {idx \in [1..Len(shape) -> 0..SeqMax(shape)] : \A i \in 1..Len(shape) : idx[i] < shape[i]}

zeros(shape, dtype) == Tensor(shape, dtype, {})

Ones(shape, dtype) == Tensor(shape, dtype, {<<idx, 1>> : idx \in Indices(shape)})

\* Every shape of rank up to 2, empty dimensions included; the shapes of a
\* higher rank have no empty dimension.
GridShapes ==
    UNION {[1..r -> (IF r <= 2 THEN 0 ELSE 1)..MaxDim] : r \in 0..MaxRank}

ExampleShapes == {<<1, 6>>, <<1, 10>>, <<1, 11>>, <<2, 8>>, <<1, 4>>}

Shapes == GridShapes \cup ExampleShapes

\* The request tensors: every shape, all-zero or filled with ones.
Tensors(dtype) == {zeros(s, dtype) : s \in Shapes} \cup {Ones(s, dtype) : s \in Shapes}

\* The tensors paired with a request (a response or a gradient): every shape.
PairedTensors(dtype) == {Ones(s, dtype) : s \in Shapes}

\* ------------------------------------------------------- TextSeq2Seq instance
TextSeq2Seq(topk, num_to_generate, frq, frs, brq, brs) ==
    [kind |-> "TextSeq2Seq",
     topk |-> topk,
     num_to_generate |-> num_to_generate,
     forward_request_serializer_type |-> frq,
     forward_response_serializer_type |-> frs,
     backward_request_serializer_type |-> brq,
     backward_response_serializer_type |-> brs,
     synapse_type |-> "TEXT_SEQ_2_SEQ"]

\* ------------------------------------------------------------- shape checks
\* Mutant: only too small a rank is refused.
check_forward_request_tensor_rank_lt(self, forward_request_tensor) ==
    IF Len(forward_request_tensor.shape) < 2 THEN ShapeError ELSE None

\* Mutant: the check never refuses.
check_forward_request_tensor_noop(self, forward_request_tensor) == None

check_forward_request_tensor(self, forward_request_tensor) ==
    IF Len(forward_request_tensor.shape) # 2 THEN ShapeError ELSE None

\* Mutant: the generation cap is compared with >= instead of >.
check_forward_response_tensor_ge(self, forward_request_tensor, forward_response_tensor) ==
    IF Len(forward_request_tensor.shape) < 1 THEN Raise("IndexError")
    ELSE IF \/ Len(forward_response_tensor.shape) # 2
            \/ forward_response_tensor.shape[1] # forward_request_tensor.shape[1]
            \/ forward_response_tensor.shape[2] >= self.num_to_generate
         THEN ShapeError
         ELSE None

\* size(0) of a rank-0 request raises IndexError, both in the condition and
\* in the formatting of the ValueError message.
check_forward_response_tensor(self, forward_request_tensor, forward_response_tensor) ==
    IF Len(forward_request_tensor.shape) < 1 THEN Raise("IndexError")
    ELSE IF \/ Len(forward_response_tensor.shape) # 2
            \/ forward_response_tensor.shape[1] # forward_request_tensor.shape[1]
            \/ forward_response_tensor.shape[2] > self.num_to_generate
         THEN ShapeError
         ELSE None

\* Mutant: only the ranks are compared.
check_backward_request_gradient_rank(self, forward_request_tensor, backward_request_gradient) ==
    IF Len(backward_request_gradient.shape) # Len(forward_request_tensor.shape)
    THEN ShapeError ELSE None

check_backward_request_gradient(self, forward_request_tensor, backward_request_gradient) ==
    IF backward_request_gradient.shape # forward_request_tensor.shape THEN ShapeError ELSE None

\* ------------------------------------------------------ encode / decode
encode_forward_request_tensor(self, forward_request_tensor) == forward_request_tensor

decode_forward_request_tensor(self, forward_request_tensor) == forward_request_tensor

encode_forward_response_tensor(self, forward_response_tensor) == forward_response_tensor

\* Mutant: the decoder rebuilds the shape and loses the values.
decode_forward_response_tensor_lossy(self, forward_response_tensor) ==
    zeros(forward_response_tensor.shape, forward_response_tensor.dtype)

decode_forward_response_tensor(self, forward_response_tensor) == forward_response_tensor

encode_backward_request_gradient(self, backward_request_gradient) == backward_request_gradient

decode_backward_request_gradient(self, backward_request_gradient) == backward_request_gradient

\* ------------------------------------------------------------ nil fallbacks
\* Mutant: the vocabulary dimension is left out.
nill_forward_response_tensor_no_vocab(self, forward_request_tensor) ==
    IF Len(forward_request_tensor.shape) < 2 THEN Raise("IndexError")
    ELSE zeros(<<forward_request_tensor.shape[1], forward_request_tensor.shape[2]>>, "float32")

nill_forward_response_tensor(self, forward_request_tensor) ==
    IF Len(forward_request_tensor.shape) < 2 THEN Raise("IndexError")
    ELSE zeros(<<forward_request_tensor.shape[1], forward_request_tensor.shape[2], vocab_size>>, "float32")

nill_backward_response_gradient(self, forward_request_tensor) ==
    IF Len(forward_request_tensor.shape) < 3 THEN Raise("IndexError")
    ELSE zeros(<<forward_request_tensor.shape[1], forward_request_tensor.shape[2],
                 forward_request_tensor.shape[3]>>, "float32")

\* --------------------------------------------------- instance proto and wire
\* Fields of the Synapse.TextSeq2Seq instance schema, in field-number order.
FieldNames == <<"topk", "num_to_generate",
                "forward_request_serializer_type", "forward_response_serializer_type",
                "backward_request_serializer_type", "backward_response_serializer_type">>

\* A freshly constructed instance proto: every field holds its default.
EmptyInstanceProto == [f \in {FieldNames[i] : i \in 1..Len(FieldNames)} |-> 0]

RECURSIVE Varint(_)
Varint(n) == IF n < 128 THEN <<n>> ELSE <<(n % 128) + 128>> \o Varint(n \div 128)

RECURSIVE ReadVarint(_, _)
ReadVarint(bytes, pos) ==
    IF bytes[pos] < 128 THEN [value |-> bytes[pos], next |-> pos + 1]
    ELSE LET r == ReadVarint(bytes, pos + 1)
         IN  [value |-> (bytes[pos] - 128) + 128 * r.value, next |-> r.next]

RECURSIVE SerializeFields(_, _)
SerializeFields(proto, f) ==
    IF f > Len(FieldNames) THEN <<>>
    ELSE (IF proto[FieldNames[f]] = 0 THEN <<>>
          ELSE <<8 * f>> \o Varint(proto[FieldNames[f]]))
         \o SerializeFields(proto, f + 1)

\* Fields holding the default value are not written.
SerializeToString(proto) == SerializeFields(proto, 1)

RECURSIVE ParseFields(_, _, _)
ParseFields(bytes, pos, proto) ==
    IF pos > Len(bytes) THEN proto
    ELSE LET f == bytes[pos] \div 8
             v == ReadVarint(bytes, pos + 1)
         IN  ParseFields(bytes, v.next, [proto EXCEPT ![FieldNames[f]] = v.value])

ParseFromString(bytes) == ParseFields(bytes, 1, EmptyInstanceProto)

\* Mutant: the two forward serializer types are passed in each other's place.
deserialize_from_instance_proto_swapped(instance_proto) ==
    TextSeq2Seq(instance_proto.topk,
                instance_proto.num_to_generate,
                instance_proto.forward_response_serializer_type,
                instance_proto.forward_request_serializer_type,
                instance_proto.backward_request_serializer_type,
                instance_proto.backward_response_serializer_type)

deserialize_from_instance_proto(instance_proto) ==
    TextSeq2Seq(instance_proto.topk,
                instance_proto.num_to_generate,
                instance_proto.forward_request_serializer_type,
                instance_proto.forward_response_serializer_type,
                instance_proto.backward_request_serializer_type,
                instance_proto.backward_response_serializer_type)

deserialize_from_wire_proto(wire_proto) ==
    deserialize_from_instance_proto(ParseFromString(wire_proto.synapse_data))

serialize_to_instance_proto(self) ==
    [topk |-> self.topk,
     num_to_generate |-> self.num_to_generate,
     forward_request_serializer_type |-> self.forward_request_serializer_type,
     forward_response_serializer_type |-> self.forward_response_serializer_type,
     backward_request_serializer_type |-> self.backward_request_serializer_type,
     backward_response_serializer_type |-> self.backward_response_serializer_type]

serialize_to_wire_proto(self, code, message) ==
    [kind |-> "Synapse",
     synapse_data |-> SerializeToString(serialize_to_instance_proto(self)),
     synapse_type |-> "TEXT_SEQ_2_SEQ",
     return_code |-> code,
     message |-> message]

\* ---------------------------------------------------------------- the calls
Calls == 1..NumCalls

NewCall(t) ==
    [state |-> "Constructed",
     trace |-> <<"Constructed">>,
     forward_request_tensor |-> t,
     encoded |-> None,
     forward_response_tensor |-> None]

\* --------------------------------------------------------------- initial states
TopkValues == {0, 127, 128, DefaultTopk}

NumToGenerateValues == {0, DefaultNumToGenerate}

\* Instances whose generation cap is within reach of the tensors' sizes,
\* with every request tensor and every tensor paired with it.
InitShapes ==
    /\ synapse \in {TextSeq2Seq(DefaultTopk, n, MSGPACK, MSGPACK, MSGPACK, MSGPACK) :
                        n \in (0..MaxGen) \cup {10}}
    /\ req \in Tensors("int64")
    /\ other \in PairedTensors("int64")

\* Instances of every configuration, with one request tensor.
InitConfigs ==
    /\ synapse \in {TextSeq2Seq(k, n, a, b, c, d) :
                        k \in TopkValues, n \in NumToGenerateValues,
                        a \in SerializerTypes, b \in SerializerTypes,
                        c \in SerializerTypes, d \in SerializerTypes}
    /\ req = Ones(<<1, 4>>, "int64")
    /\ other = Ones(<<1, 4>>, "int64")

Init ==
    /\ InitShapes \/ InitConfigs
    /\ vocab_size \in VocabSizes
    /\ op = "__init__"
    /\ arg = None
    /\ ret = None
    /\ call = [c \in Calls |-> NewCall(Ones(<<1, MaxGen>>, "int64"))]

\* ------------------------------------------- operations applied to the instance
\* Each action applies one operation of the instance: op names it, arg is
\* its input when that is neither req nor other, ret is what it returned or
\* raised.
CheckForwardRequestTensor ==
    /\ op' = "check_forward_request_tensor"
    /\ arg' = None
    /\ ret' = check_forward_request_tensor(synapse, req)
    /\ UNCHANGED <<synapse, vocab_size, req, other, call>>

\* Mutant: the check clamps the instance's cap to the response it saw.
CheckForwardResponseTensor_clamps ==
    /\ op' = "check_forward_response_tensor"
    /\ arg' = None
    /\ ret' = check_forward_response_tensor(synapse, req, other)
    /\ synapse' = [synapse EXCEPT !.num_to_generate =
                        IF Len(other.shape) = 2 THEN other.shape[2] ELSE @]
    /\ UNCHANGED <<vocab_size, req, other, call>>

CheckForwardResponseTensor ==
    /\ op' = "check_forward_response_tensor"
    /\ arg' = None
    /\ ret' = check_forward_response_tensor(synapse, req, other)
    /\ UNCHANGED <<synapse, vocab_size, req, other, call>>

CheckBackwardRequestGradient ==
    /\ op' = "check_backward_request_gradient"
    /\ arg' = None
    /\ ret' = check_backward_request_gradient(synapse, req, other)
    /\ UNCHANGED <<synapse, vocab_size, req, other, call>>

EncodeForwardRequestTensor ==
    /\ op' = "encode_forward_request_tensor"
    /\ arg' = req
    /\ ret' = encode_forward_request_tensor(synapse, req)
    /\ UNCHANGED <<synapse, vocab_size, req, other, call>>

\* The decoder is applied to what the matching encoder produced.
DecodeForwardRequestTensor ==
    /\ op = "encode_forward_request_tensor"
    /\ op' = "decode_forward_request_tensor"
    /\ arg' = ret
    /\ ret' = decode_forward_request_tensor(synapse, ret)
    /\ UNCHANGED <<synapse, vocab_size, req, other, call>>

EncodeForwardResponseTensor ==
    /\ op' = "encode_forward_response_tensor"
    /\ arg' = req
    /\ ret' = encode_forward_response_tensor(synapse, req)
    /\ UNCHANGED <<synapse, vocab_size, req, other, call>>

\* The decoder is applied to what the matching encoder produced.
DecodeForwardResponseTensor ==
    /\ op = "encode_forward_response_tensor"
    /\ op' = "decode_forward_response_tensor"
    /\ arg' = ret
    /\ ret' = decode_forward_response_tensor(synapse, ret)
    /\ UNCHANGED <<synapse, vocab_size, req, other, call>>

EncodeBackwardRequestGradient ==
    /\ op' = "encode_backward_request_gradient"
    /\ arg' = req
    /\ ret' = encode_backward_request_gradient(synapse, req)
    /\ UNCHANGED <<synapse, vocab_size, req, other, call>>

\* The decoder is applied to what the matching encoder produced.
DecodeBackwardRequestGradient ==
    /\ op = "encode_backward_request_gradient"
    /\ op' = "decode_backward_request_gradient"
    /\ arg' = ret
    /\ ret' = decode_backward_request_gradient(synapse, ret)
    /\ UNCHANGED <<synapse, vocab_size, req, other, call>>

NillForwardResponseTensor ==
    /\ op' = "nill_forward_response_tensor"
    /\ arg' = None
    /\ ret' = nill_forward_response_tensor(synapse, req)
    /\ UNCHANGED <<synapse, vocab_size, req, other, call>>

NillBackwardResponseGradient ==
    /\ op' = "nill_backward_response_gradient"
    /\ arg' = None
    /\ ret' = nill_backward_response_gradient(synapse, req)
    /\ UNCHANGED <<synapse, vocab_size, req, other, call>>

SerializeToWireProto ==
    \E code \in ReturnCodes, message \in Messages :
        /\ op' = "serialize_to_wire_proto"
        /\ arg' = [code |-> code, message |-> message]
        /\ ret' = serialize_to_wire_proto(synapse, code, message)
        /\ UNCHANGED <<synapse, vocab_size, req, other, call>>

\* The receiver rebuilds the instance from the wire proto in flight.
DeserializeFromWireProto ==
    /\ op = "serialize_to_wire_proto"
    /\ op' = "deserialize_from_wire_proto"
    /\ arg' = ret
    /\ ret' = deserialize_from_wire_proto(ret)
    /\ UNCHANGED <<synapse, vocab_size, req, other, call>>

Next ==
    \/ CheckForwardRequestTensor
    \/ CheckForwardResponseTensor
    \/ CheckBackwardRequestGradient
    \/ EncodeForwardRequestTensor
    \/ DecodeForwardRequestTensor
    \/ EncodeForwardResponseTensor
    \/ DecodeForwardResponseTensor
    \/ EncodeBackwardRequestGradient
    \/ DecodeBackwardRequestGradient
    \/ NillForwardResponseTensor
    \/ NillBackwardResponseGradient
    \/ SerializeToWireProto
    \/ DeserializeFromWireProto

Spec == Init /\ [][Next]_vars

\* ------------------------------------------------------- one call, step by step
\* The forward exchange of one call governed by the shared instance:
\* Constructed -> RequestValidated -> RequestEncoded -> ResponseDecoded ->
\* ResponseValidated, or Failed(ShapeError), or NilFallbackProduced.
CallRequests ==
    {Ones(s, "int64") : s \in {<<MaxGen>>, <<1, MaxGen>>, <<1, MaxGen, 1>>}}

\* What the transport may hand back as the response payload.
CallResponses ==
    {Ones(s, "int64") : s \in {<<1, MaxGen>>, <<1, MaxGen + 1>>, <<2, 1>>, <<1, MaxGen, 1>>}}

InitCall ==
    /\ synapse \in {TextSeq2Seq(DefaultTopk, n, MSGPACK, MSGPACK, MSGPACK, MSGPACK) :
                        n \in 0..MaxGen}
    /\ vocab_size \in VocabSizes
    /\ req = Ones(<<1, MaxGen>>, "int64")
    /\ other = Ones(<<1, MaxGen>>, "int64")
    /\ op = "__init__"
    /\ arg = None
    /\ ret = None
    /\ call \in [Calls -> {NewCall(t) : t \in CallRequests}]

Goto(c, state) ==
    [call[c] EXCEPT !.state = state, !.trace = Append(@, state)]

ValidateRequest(c) ==
    /\ call[c].state = "Constructed"
    /\ LET r == check_forward_request_tensor(synapse, call[c].forward_request_tensor)
       IN  call' = [call EXCEPT ![c] =
                        IF r = None THEN Goto(c, "RequestValidated")
                        ELSE Goto(c, "Failed(ShapeError)")]
    /\ UNCHANGED <<synapse, vocab_size, req, other, op, arg, ret>>

EncodeRequest(c) ==
    /\ call[c].state = "RequestValidated"
    /\ call' = [call EXCEPT ![c] =
                    [Goto(c, "RequestEncoded") EXCEPT !.encoded =
                        encode_forward_request_tensor(synapse, call[c].forward_request_tensor)]]
    /\ UNCHANGED <<synapse, vocab_size, req, other, op, arg, ret>>

ReceiveResponse(c) ==
    /\ call[c].state = "RequestEncoded"
    /\ \E payload \in CallResponses :
        call' = [call EXCEPT ![c] =
                    [Goto(c, "ResponseDecoded") EXCEPT !.forward_response_tensor =
                        decode_forward_response_tensor(synapse, payload)]]
    /\ UNCHANGED <<synapse, vocab_size, req, other, op, arg, ret>>

ValidateResponse(c) ==
    /\ call[c].state = "ResponseDecoded"
    /\ LET r == check_forward_response_tensor(synapse, call[c].forward_request_tensor,
                                              call[c].forward_response_tensor)
       IN  call' = [call EXCEPT ![c] =
                        IF r = None THEN Goto(c, "ResponseValidated")
                        ELSE Goto(c, "Failed(ShapeError)")]
    /\ UNCHANGED <<synapse, vocab_size, req, other, op, arg, ret>>

Timeout(c) ==
    /\ call[c].state = "RequestEncoded"
    /\ call' = [call EXCEPT ![c] =
                    [Goto(c, "NilFallbackProduced") EXCEPT !.forward_response_tensor =
                        nill_forward_response_tensor(synapse, call[c].forward_request_tensor)]]
    /\ UNCHANGED <<synapse, vocab_size, req, other, op, arg, ret>>

NextCall ==
    \E c \in Calls :
        \/ ValidateRequest(c)
        \/ EncodeRequest(c)
        \/ ReceiveResponse(c)
        \/ ValidateResponse(c)
        \/ Timeout(c)

SpecCall == InitCall /\ [][NextCall]_vars

\* ------------------------------------------------------------------ claims
SameShape(a, b) ==
    /\ Len(a.shape) = Len(b.shape)
    /\ \A i \in 1..Len(a.shape) : a.shape[i] = b.shape[i]

AllZero(t) == t.kind = "Tensor" /\ t.data = {}

\* C1: against a rank-2 request, check_forward_response fails with a
\* ShapeError exactly when the response is not of rank 2, or its dimension 0
\* differs from the request's, or its dimension 1 exceeds num_to_generate,
\* and succeeds otherwise.
C1_CheckForwardResponse ==
    (op = "check_forward_response_tensor" /\ Rank(req) = 2) =>
        IF \/ Rank(other) # 2
           \/ other.shape[1] # req.shape[1]
           \/ other.shape[2] > synapse.num_to_generate
        THEN ret = ShapeError
        ELSE ret = None

C1_Witness ==
    /\ op = "check_forward_response_tensor"
    /\ synapse.num_to_generate = 10
    /\ req.shape = <<1, 6>>
    /\ other.shape = <<1, 11>>
    /\ ret = ShapeError

\* C2: for a rank-2 request, nil_backward_gradient succeeds and returns an
\* all-zero tensor whose shape equals the request's shape.
C2_NilBackwardGradient ==
    (op = "nill_backward_response_gradient" /\ Rank(req) = 2) =>
        /\ AllZero(ret)
        /\ SameShape(ret, req)

\* C3: deserialize_from_wire(serialize_to_wire(v, return_code, message))
\* equals v in all six fields, whatever the return code and the message.
C3_WireRoundTrip ==
    op = "deserialize_from_wire_proto" =>
        /\ ret.kind = "TextSeq2Seq"
        /\ \A i \in 1..Len(FieldNames) : ret[FieldNames[i]] = synapse[FieldNames[i]]

C3_Witness ==
    /\ op = "deserialize_from_wire_proto"
    /\ arg.return_code = 1
    /\ arg.message = "Success"
    /\ synapse.topk = 128
    /\ synapse.num_to_generate = 0
    /\ synapse.forward_request_serializer_type = MSGPACK
    /\ synapse.forward_response_serializer_type = CMPPACK
    /\ ret.topk = 128

\* C4: for a rank-2 request, nil_forward_response succeeds and returns an
\* all-zero tensor of shape (req.dim0, req.dim1, VOCAB_SIZE).
C4_NilForwardResponse ==
    (op = "nill_forward_response_tensor" /\ Rank(req) = 2) =>
        /\ AllZero(ret)
        /\ ret.shape = <<req.shape[1], req.shape[2], vocab_size>>

C4_Witness ==
    /\ op = "nill_forward_response_tensor"
    /\ req.shape = <<1, 4>>
    /\ vocab_size = 50000
    /\ ret.kind = "Tensor"
    /\ ret.shape = <<1, 4, 50000>>

\* C5: check_backward_gradient fails with a ShapeError exactly when the
\* gradient's shape differs from the request's (in rank or in any dimension)
\* and succeeds when the two shapes are equal.
C5_CheckBackwardGradient ==
    op = "check_backward_request_gradient" =>
        IF SameShape(other, req) THEN ret = None ELSE ret = ShapeError

C5_Witness ==
    /\ op = "check_backward_request_gradient"
    /\ Rank(other) = Rank(req)
    /\ Rank(req) = 2
    /\ other.shape # req.shape
    /\ ret = ShapeError

\* C6: check_forward_request fails with a ShapeError when the tensor's rank
\* is not 2 and succeeds when it is 2, whatever the dimension sizes and the
\* instance's topk and num_to_generate.
C6_CheckForwardRequest ==
    op = "check_forward_request_tensor" =>
        IF Rank(req) = 2 THEN ret = None ELSE ret = ShapeError

C6_Witness ==
    /\ op = "check_forward_request_tensor"
    /\ Rank(req) = 3
    /\ ret = ShapeError

C8_Immutable == [][synapse' = synapse]_vars

C8_Witness ==
    /\ op = "check_forward_response_tensor"
    /\ ret = ShapeError
    /\ synapse.num_to_generate = 0
    /\ Rank(other) = 2
    /\ other.shape[2] = 1

EncodeDecodeOps ==
    {"encode_forward_request_tensor", "decode_forward_request_tensor",
     "encode_forward_response_tensor", "decode_forward_response_tensor",
     "encode_backward_request_gradient", "decode_backward_request_gradient"}

C10_NilFallbackAccepted ==
    \A c \in Calls :
        call[c].state = "NilFallbackProduced" =>
            check_forward_response_tensor(synapse, call[c].forward_request_tensor,
                                          call[c].forward_response_tensor) = None

====
